---- MODULE Spec2Model ----
(***************************************************************************)
(* Model of the GigaDogiCollection contract (src/src/lib.rs): the minting  *)
(* engine, the instance registry, the authentication gate and the queries  *)
(* over the registry.  One contract call runs at a time; the only          *)
(* suspension point inside a call is the cross-contract call of            *)
(* create_mint_transfer, so a call is a sequence of steps separated by     *)
(* that sub-call.  A call that returns Err is rolled back by the host.     *)
(***************************************************************************)
EXTENDS Integers, Sequences, FiniteSets, TLC

(* ---------------- bounds of the model ---------------- *)
MaxCount == 6        \* largest count passed to authMintOrbital (exceeds the supply)
MaxIncoming == 2     \* longest list of incoming transfers
MaxForeign == 1      \* objects created by other transactions (each advances the host counter)
MaxIndex == 5        \* largest small index passed to a query

(* ---------------- program constants ---------------- *)
DOGI_ORBITAL_TEMPLATE_ID == 888       \* 0x378
max_mints_plus_one == 5 + 1
max_mints == 5
\* u128::MAX, scaled to the largest integer of the model checker
U128_MAX == 2147483647

\* context.myself: the identity of the deployed collection contract
MYSELF == [block |-> 2, tx |-> 1]
\* some other alkane a caller may hold
OTHER_ALKANE == [block |-> 2, tx |-> 0]

ERR_MINTED_OUT == "Giga Dogi collection has fully minted out"
ERR_NOT_RETURNED == "orbital token not returned with factory"
ERR_OVERFLOW == "instances count overflow"
ERR_AUTH_LEN == "did not authenticate with only the collection token"
ERR_AUTH_ID == "supplied alkane is not collection token"
ERR_AUTH_VALUE == "less than 1 unit of collection token supplied to authenticate"
ERR_LENGTH == "Invalid instance data length"
ERR_INITIALIZED == "already initialized"
ERR_EXTCALL == "extcall failed"
ERR_INDEX == "Index out of bounds for Giga Dogi collection"
ERR_INVALID_INDEX == "Invalid Dogi index"
ERR_PANIC == "attempt to add with overflow"

VARIABLES
  pc,            \* "idle" | "loop" (in auth_mint_orbital's for) | "calling" (in self.call) | "done"
  call,          \* the current (or, when idle, the last) call: op, incoming transfers, argument
  instances,     \* storage "/instances": the u128 count
  records,       \* storage "/instances" ++ le(k): k |-> stored bytes
  initialized,   \* storage "/initialized": the marker of observe_initialization
  seq,           \* the host's sequence counter
  saved,         \* the host's checkpoint taken when the call started
  frame,         \* locals of the running handler
  result,        \* what the last call returned
  mintLog,       \* history: one entry per mint recorded in the working storage
  subcalls,      \* history: the outcomes of the cross-contract calls of the current call
  hist           \* history: counters over the successful calls

vars == <<pc, call, instances, records, initialized, seq, saved, frame, result,
          mintLog, subcalls, hist>>

(* ---------------- encodings ---------------- *)
RECURSIVE to_le_bytes(_, _)
to_le_bytes(x, n) ==
  IF n = 0 THEN <<>> ELSE <<x % 256>> \o to_le_bytes(x \div 256, n - 1)

\* u128::from_le_bytes of a [u8; 16]: the least significant byte first
from_le_bytes(b) ==
  b[1] + 256 * (b[2] + 256 * (b[3] + 256 * (b[4] + 256 * (b[5] + 256 * (b[6] + 256 * (b[7]
    + 256 * (b[8] + 256 * (b[9] + 256 * (b[10] + 256 * (b[11] + 256 * (b[12] + 256 * (b[13]
    + 256 * (b[14] + 256 * (b[15] + 256 * b[16]))))))))))))))

Digit(d) == <<"0", "1", "2", "3", "4", "5", "6", "7", "8", "9">>[d + 1]

RECURSIVE Decimal(_)
Decimal(n) == IF n < 10 THEN <<Digit(n)>> ELSE Decimal(n \div 10) \o <<Digit(n % 10)>>

encode_id_swapped(id) == to_le_bytes(id.tx, 16) \o to_le_bytes(id.block, 16)

encode_id(id) == to_le_bytes(id.block, 16) \o to_le_bytes(id.tx, 16)

(* ---------------- storage ---------------- *)
StorageGet(recs, k) == IF k \in DOMAIN recs THEN recs[k] ELSE <<>>

instances_count == instances

add_instance_pre_increment(count, recs, instance_id) ==
  IF count >= U128_MAX
  THEN [err |-> ERR_OVERFLOW, count |-> count, records |-> recs]
  ELSE LET new_count == count + 1
           bytes == encode_id(instance_id)
       IN [err |-> "", count |-> new_count,
           records |-> [k \in (DOMAIN recs) \cup {count} |->
                          IF k = count THEN bytes ELSE recs[k]]]

add_instance_count_not_stored(count, recs, instance_id) ==
  IF count >= U128_MAX
  THEN [err |-> ERR_OVERFLOW, count |-> count, records |-> recs]
  ELSE LET new_count == count + 1
           bytes == encode_id(instance_id)
       IN [err |-> "", count |-> count,
           records |-> [k \in (DOMAIN recs) \cup {new_count} |->
                          IF k = new_count THEN bytes ELSE recs[k]]]

add_instance(count, recs, instance_id) ==
  IF count >= U128_MAX
  THEN [err |-> ERR_OVERFLOW, count |-> count, records |-> recs]
  ELSE LET new_count == count + 1
           bytes == encode_id(instance_id)
       IN [err |-> "", count |-> new_count,
           records |-> [k \in (DOMAIN recs) \cup {new_count} |->
                          IF k = new_count THEN bytes ELSE recs[k]]]

lookup_instance_zero_based(recs, index) ==
  LET storage_index == index
      bytes == StorageGet(recs, storage_index)
  IN IF Len(bytes) # 32
     THEN [err |-> ERR_LENGTH, id |-> [block |-> 0, tx |-> 0]]
     ELSE [err |-> "",
           id |-> [block |-> from_le_bytes(SubSeq(bytes, 1, 16)),
                   tx |-> from_le_bytes(SubSeq(bytes, 17, 32))]]

\* index + 1 on u128 as the release build computes it (no overflow checks)
wrapping_add_one(x) == IF x = U128_MAX THEN 0 ELSE x + 1

\* index + 1 panics instead when the build has overflow checks
add_one_overflows(x) == x = U128_MAX

lookup_instance(recs, index) ==
  LET storage_index == wrapping_add_one(index)
      bytes == StorageGet(recs, storage_index)
  IN IF Len(bytes) # 32
     THEN [err |-> ERR_LENGTH, id |-> [block |-> 0, tx |-> 0]]
     ELSE [err |-> "",
           id |-> [block |-> from_le_bytes(SubSeq(bytes, 1, 16)),
                   tx |-> from_le_bytes(SubSeq(bytes, 17, 32))]]

(* ---------------- static tables of the query layer ---------------- *)
Traits(background, body, eyes, accessory, rarity) ==
  [Background |-> background, Body |-> body, Eyes |-> eyes, Accessory |-> accessory,
   Rarity |-> rarity]

generate_dogi_attributes(index) ==
  IF index >= 5 THEN [err |-> ERR_INDEX, out |-> <<>>]
  ELSE CASE index = 0 -> [err |-> "", out |-> <<Traits("Cosmic Purple", "Golden Shiba",
                            "Laser Blue", "Diamond Chain", "Legendary")>>]
         [] index = 1 -> [err |-> "", out |-> <<Traits("Neon Green", "Silver Shiba",
                            "Fire Red", "Bitcoin Crown", "Epic")>>]
         [] index = 2 -> [err |-> "", out |-> <<Traits("Electric Blue", "Rainbow Shiba",
                            "Galaxy Purple", "Rocket Pack", "Rare")>>]
         [] index = 3 -> [err |-> "", out |-> <<Traits("Sunset Orange", "Cyber Shiba",
                            "Neon Green", "Holographic Collar", "Uncommon")>>]
         [] index = 4 -> [err |-> "", out |-> <<Traits("Matrix Black", "Platinum Shiba",
                            "Diamond White", "Infinity Gauntlet", "Mythic")>>]
         [] OTHER -> [err |-> ERR_INVALID_INDEX, out |-> <<>>]

cloudinary_urls ==
  << "https://res.cloudinary.com/dpwvlwwf7/image/upload/t_Thumbnail/v1749684070/dogi5_iig8fx.png",
     "https://res.cloudinary.com/dpwvlwwf7/image/upload/t_Thumbnail/v1749684069/dogi3_bfezed.png",
     "https://res.cloudinary.com/dpwvlwwf7/image/upload/t_Thumbnail/v1749684069/dogi4_jistot.png",
     "https://res.cloudinary.com/dpwvlwwf7/image/upload/t_Thumbnail/v1749684068/dogi2_gowfmy.png",
     "https://res.cloudinary.com/dpwvlwwf7/image/upload/t_Thumbnail/v1749684067/dogi1_k1xpl4.png" >>

get_cloudinary_url_minted_bound(index) ==
  IF index >= instances_count THEN [err |-> ERR_INDEX, out |-> <<>>]
  ELSE [err |-> "", out |-> <<cloudinary_urls[index + 1]>>]

get_cloudinary_url(index) ==
  IF index >= 5 THEN [err |-> ERR_INDEX, out |-> <<>>]
  ELSE [err |-> "", out |-> <<cloudinary_urls[index + 1]>>]

(* ---------------- authentication gate ---------------- *)
only_owner_no_value_check(incoming) ==
  IF Len(incoming) # 1 THEN ERR_AUTH_LEN
  ELSE IF incoming[1].id # MYSELF THEN ERR_AUTH_ID
  ELSE ""

only_owner(incoming) ==
  IF Len(incoming) # 1 THEN ERR_AUTH_LEN
  ELSE IF incoming[1].id # MYSELF THEN ERR_AUTH_ID
  ELSE IF incoming[1].value < 1 THEN ERR_AUTH_VALUE
  ELSE ""

observe_initialization(marker) ==
  IF marker THEN [err |-> ERR_INITIALIZED, marker |-> marker]
  ELSE [err |-> "", marker |-> TRUE]

(* ---------------- inputs ---------------- *)
Transfers ==
  { [id |-> MYSELF, value |-> 0], [id |-> MYSELF, value |-> 1], [id |-> OTHER_ALKANE, value |-> 1] }

\* the lists of incoming transfers a caller presents: nothing, or one of the
\* transfers above followed by further transfers of the other alkane
Incomings ==
  {<<>>} \cup
  { <<t>> \o [k \in 1..n |-> [id |-> OTHER_ALKANE, value |-> 1]] :
      t \in Transfers, n \in 0..(MaxIncoming - 1) }

\* what the template's call response may carry, for the orbital created at sequence s
OrbitalTransfer(s) == [id |-> [block |-> 2, tx |-> s], value |-> 1]
Responses(s) ==
  { <<>>, <<OrbitalTransfer(s)>>, <<OrbitalTransfer(s), [id |-> OTHER_ALKANE, value |-> 1]>> }

\* what a caller presents to a query: no handler of a query looks at it
QueryIncomings == {<<>>, <<[id |-> MYSELF, value |-> 1], [id |-> OTHER_ALKANE, value |-> 1]>>}

\* the indexes a caller passes to a query: small ones and the largest u128
QueryIndexes == (0..MaxIndex) \cup {U128_MAX}

(* ---------------- helpers of the call protocol ---------------- *)
NoCellpack == [target |-> [block |-> 0, tx |-> 0], inputs |-> <<>>]

Cellpack_one_based(index) ==
  [target |-> [block |-> 6, tx |-> DOGI_ORBITAL_TEMPLATE_ID], inputs |-> <<0, index + 1>>]

\* the message create_mint_transfer sends to the template
Cellpack(index) ==
  [target |-> [block |-> 6, tx |-> DOGI_ORBITAL_TEMPLATE_ID], inputs |-> <<0, index>>]

EmptyFrame ==
  [response |-> <<>>, minted_orbitals |-> <<>>, remaining |-> 0, index |-> 0, sequence |-> 0,
   cellpack |-> NoCellpack]

Snapshot ==
  [instances |-> instances, records |-> records, initialized |-> initialized,
   seq |-> seq, mintLog |-> mintLog]

ErrResult(msg) == [status |-> "err", err |-> msg, alkanes |-> <<>>, data |-> <<>>]
OkResult(alkanes, data) == [status |-> "ok", err |-> "", alkanes |-> alkanes, data |-> data]

\* the handler returned Err: the host restores its checkpoint
Abort(snap, msg) ==
  /\ pc' = "done"
  /\ instances' = snap.instances
  /\ records' = snap.records
  /\ initialized' = snap.initialized
  /\ seq' = snap.seq
  /\ mintLog' = snap.mintLog
  /\ frame' = EmptyFrame
  /\ result' = ErrResult(msg)
  /\ hist' = hist

\* the handler returned Ok(response): the working storage is kept
Return(res, h) ==
  /\ pc' = "done"
  /\ frame' = EmptyFrame
  /\ result' = res
  /\ hist' = h

forward(incoming) == incoming

OrbitalId_after_call(f, hostSeq) == [block |-> 2, tx |-> hostSeq]

OrbitalId_template(f, hostSeq) == [block |-> 2, tx |-> DOGI_ORBITAL_TEMPLATE_ID]

OrbitalId(f, hostSeq) == [block |-> 2, tx |-> f.sequence]

MintResult_unchecked(response) ==
  [err |-> "", out |-> IF response = <<>> THEN <<>> ELSE <<response[1]>>]

MintResult_last(response) ==
  IF Len(response) < 1
  THEN [err |-> ERR_NOT_RETURNED, out |-> <<>>]
  ELSE [err |-> "", out |-> <<response[Len(response)]>>]

MintResult(response) ==
  IF Len(response) < 1
  THEN [err |-> ERR_NOT_RETURNED, out |-> <<>>]
  ELSE [err |-> "", out |-> <<response[1]>>]

(* ---------------- state ---------------- *)
NoCall == [op |-> "none", incoming |-> <<>>, arg |-> 0]
NoCheckpoint ==
  [instances |-> 0, records |-> <<>>, initialized |-> FALSE, seq |-> 0, mintLog |-> <<>>]

Init ==
  /\ pc = "idle"
  /\ call = NoCall
  /\ instances = 0
  /\ records = <<>>
  /\ initialized = FALSE
  /\ seq = MYSELF.tx + 1
  /\ saved = NoCheckpoint
  /\ frame = EmptyFrame
  /\ result = OkResult(<<>>, <<>>)
  /\ mintLog = <<>>
  /\ subcalls = <<>>
  /\ hist = [okMintCalls |-> 0, okAuthMints |-> 0, returnedOrbitals |-> 0, initOk |-> 0]

\* a call enters the contract: the host checkpoints the state
Enter(op, incoming, arg) ==
  /\ pc = "idle"
  /\ call' = [op |-> op, incoming |-> incoming, arg |-> arg]
  /\ saved' = Snapshot
  /\ subcalls' = <<>>

(* ---------------- operations ---------------- *)
initialize_unguarded(incoming) ==
  /\ Enter("initialize", incoming, 0)
  /\ initialized' = TRUE
  /\ UNCHANGED <<instances, records, seq, mintLog>>
  /\ Return(OkResult(forward(incoming) \o <<[id |-> MYSELF, value |-> 10]>>, <<>>),
            [hist EXCEPT !.initOk = @ + 1])

initialize_no_forward(incoming) ==
  /\ Enter("initialize", incoming, 0)
  /\ LET obs == observe_initialization(initialized)
     IN IF obs.err # ""
        THEN Abort(Snapshot, obs.err)
        ELSE /\ initialized' = obs.marker
             /\ UNCHANGED <<instances, records, seq, mintLog>>
             /\ Return(OkResult(<<[id |-> MYSELF, value |-> 10]>>, <<>>),
                       [hist EXCEPT !.initOk = @ + 1])

initialize(incoming) ==
  /\ Enter("initialize", incoming, 0)
  /\ LET obs == observe_initialization(initialized)
     IN IF obs.err # ""
        THEN Abort(Snapshot, obs.err)
        ELSE /\ initialized' = obs.marker
             /\ UNCHANGED <<instances, records, seq, mintLog>>
             /\ Return(OkResult(forward(incoming) \o <<[id |-> MYSELF, value |-> 10]>>, <<>>),
                       [hist EXCEPT !.initOk = @ + 1])

CreateMintTransferBegin_gt(snap, f) ==
  LET index == instances_count
  IN IF index > max_mints
     THEN Abort(snap, ERR_MINTED_OUT)
     ELSE /\ pc' = "calling"
          /\ frame' = [f EXCEPT !.index = index, !.sequence = seq,
                                !.cellpack = Cellpack(index)]
          /\ UNCHANGED <<instances, records, initialized, seq, mintLog, result, hist>>

CreateMintTransferBegin_unchecked(snap, f) ==
  LET index == instances_count
  IN /\ pc' = "calling"
     /\ frame' = [f EXCEPT !.index = index, !.sequence = seq,
                           !.cellpack = Cellpack(index)]
     /\ UNCHANGED <<instances, records, initialized, seq, mintLog, result, hist>>

\* create_mint_transfer up to the point where self.call is entered
CreateMintTransferBegin(snap, f) ==
  LET index == instances_count
  IN IF index >= max_mints
     THEN Abort(snap, ERR_MINTED_OUT)
     ELSE /\ pc' = "calling"
          /\ frame' = [f EXCEPT !.index = index, !.sequence = seq,
                                !.cellpack = Cellpack(index)]
          /\ UNCHANGED <<instances, records, initialized, seq, mintLog, result, hist>>

mint_orbital(incoming) ==
  /\ Enter("mintOrbital", incoming, 0)
  /\ CreateMintTransferBegin(Snapshot, [EmptyFrame EXCEPT !.response = forward(incoming)])

auth_mint_orbital_inclusive(incoming, count) ==
  /\ Enter("authMintOrbital", incoming, count)
  /\ LET auth == only_owner(incoming)
     IN IF auth # ""
        THEN Abort(Snapshot, auth)
        ELSE /\ pc' = "loop"
             /\ frame' = [EmptyFrame EXCEPT !.response = forward(incoming),
                                            !.remaining = count + 1]
             /\ UNCHANGED <<instances, records, initialized, seq, mintLog, result, hist>>

auth_mint_orbital(incoming, count) ==
  /\ Enter("authMintOrbital", incoming, count)
  /\ LET auth == only_owner(incoming)
     IN IF auth # ""
        THEN Abort(Snapshot, auth)
        ELSE /\ pc' = "loop"
             /\ frame' = [EmptyFrame EXCEPT !.response = forward(incoming), !.remaining = count]
             /\ UNCHANGED <<instances, records, initialized, seq, mintLog, result, hist>>

auth_mint_loop_break ==
  /\ pc = "loop"
  /\ UNCHANGED <<call, saved, subcalls>>
  /\ IF frame.remaining = 0 \/ instances_count >= max_mints
     THEN /\ UNCHANGED <<instances, records, initialized, seq, mintLog>>
          /\ Return(OkResult(frame.response \o frame.minted_orbitals, <<>>),
                    [hist EXCEPT !.okAuthMints = @ + call.arg,
                                 !.returnedOrbitals = @ + Len(frame.minted_orbitals)])
     ELSE CreateMintTransferBegin(saved, frame)

\* one turn of `for _ in 0..count`, or the end of auth_mint_orbital
auth_mint_loop ==
  /\ pc = "loop"
  /\ UNCHANGED <<call, saved, subcalls>>
  /\ IF frame.remaining = 0
     THEN /\ UNCHANGED <<instances, records, initialized, seq, mintLog>>
          /\ Return(OkResult(frame.response \o frame.minted_orbitals, <<>>),
                    [hist EXCEPT !.okAuthMints = @ + call.arg,
                                 !.returnedOrbitals = @ + Len(frame.minted_orbitals)])
     ELSE CreateMintTransferBegin(saved, frame)

\* self.call returned Ok(response): the rest of create_mint_transfer and of its caller
call_returns(response) ==
  /\ pc = "calling"
  /\ UNCHANGED <<call, saved, initialized>>
  /\ subcalls' = Append(subcalls, [ok |-> TRUE, alkanes |-> response,
                                   cellpack |-> frame.cellpack])
  /\ LET hostSeq == seq + 1
         orbital_id == OrbitalId(frame, hostSeq)
         added == add_instance(instances_count, records, orbital_id)
         minted == MintResult(response)
     IN IF added.err # "" THEN Abort(saved, added.err)
        ELSE IF minted.err # "" THEN Abort(saved, minted.err)
        ELSE /\ instances' = added.count
             /\ records' = added.records
             /\ seq' = hostSeq
             /\ mintLog' = Append(mintLog, [id |-> orbital_id, index |-> frame.index,
                                            hostBefore |-> seq, hostAfter |-> hostSeq,
                                            cellpack |-> frame.cellpack])
             /\ IF call.op = "mintOrbital"
                THEN Return(OkResult(frame.response \o minted.out, <<>>),
                            [hist EXCEPT !.okMintCalls = @ + 1,
                                         !.returnedOrbitals = @ + Len(minted.out)])
                ELSE /\ pc' = "loop"
                     /\ frame' = [frame EXCEPT !.minted_orbitals = @ \o minted.out,
                                               !.remaining = @ - 1]
                     /\ UNCHANGED <<result, hist>>

\* self.call returned Err (the template reverted or the fuel ran out)
call_fails ==
  /\ pc = "calling"
  /\ UNCHANGED <<call, saved>>
  /\ subcalls' = Append(subcalls, [ok |-> FALSE, alkanes |-> <<>>,
                                   cellpack |-> frame.cellpack])
  /\ Abort(saved, ERR_EXTCALL)

\* a query handler that only computes a payload
Query(op, incoming, arg, err, data) ==
  /\ Enter(op, incoming, arg)
  /\ IF err # ""
     THEN Abort(Snapshot, err)
     ELSE /\ UNCHANGED <<instances, records, initialized, seq, mintLog>>
          /\ Return(OkResult(forward(incoming), data), hist)

get_name_observing(incoming) ==
  /\ Enter("getName", incoming, 0)
  /\ initialized' = TRUE
  /\ UNCHANGED <<instances, records, seq, mintLog>>
  /\ Return(OkResult(forward(incoming), <<"Giga Dogi">>), hist)

get_name(incoming) == Query("getName", incoming, 0, "", <<"Giga Dogi">>)

get_symbol(incoming) == Query("getSymbol", incoming, 0, "", <<"giga-dogi">>)

get_total_supply(incoming) == Query("getTotalSupply", incoming, 0, "", to_le_bytes(1, 16))

get_attributes(incoming, index) ==
  LET attributes == generate_dogi_attributes(index)
  IN Query("getAttributes", incoming, index, attributes.err, attributes.out)

get_data(incoming, index) ==
  LET cloudinary_url == get_cloudinary_url(index)
  IN Query("getData", incoming, index, cloudinary_url.err, cloudinary_url.out)

get_orbital_count(incoming) ==
  Query("getOrbitalCount", incoming, 0, "", to_le_bytes(instances_count, 16))

\* overflow_checks: whether the build traps on the overflow of index + 1
get_instance_alkane_id(incoming, index, overflow_checks) ==
  IF overflow_checks /\ add_one_overflows(index)
  THEN Query("getInstanceAlkaneId", incoming, index, ERR_PANIC, <<>>)
  ELSE LET found == lookup_instance(records, index)
       IN Query("getInstanceAlkaneId", incoming, index, found.err,
                to_le_bytes(found.id.block, 16) \o to_le_bytes(found.id.tx, 16))

get_instance_identifier(incoming, index, overflow_checks) ==
  IF overflow_checks /\ add_one_overflows(index)
  THEN Query("getInstanceIdentifier", incoming, index, ERR_PANIC, <<>>)
  ELSE LET found == lookup_instance(records, index)
       IN Query("getInstanceIdentifier", incoming, index, found.err,
                Decimal(found.id.block) \o <<":">> \o Decimal(found.id.tx))

\* the response is handed to the caller: the call is over
respond ==
  /\ pc = "done"
  /\ pc' = "idle"
  /\ call' = NoCall
  /\ saved' = NoCheckpoint
  /\ result' = OkResult(<<>>, <<>>)
  /\ subcalls' = <<>>
  /\ UNCHANGED <<instances, records, initialized, seq, frame, mintLog, hist>>

\* another transaction creates an object: the host counter advances
host_advance ==
  /\ pc = "idle"
  /\ seq - (MYSELF.tx + 1) - Len(mintLog) < MaxForeign
  /\ seq' = seq + 1
  /\ UNCHANGED <<pc, call, instances, records, initialized, saved, frame, result,
                 mintLog, subcalls, hist>>

Next ==
  \/ \E incoming \in Incomings : initialize(incoming)
  \/ \E incoming \in Incomings : mint_orbital(incoming)
  \/ \E incoming \in Incomings, count \in 0..MaxCount : auth_mint_orbital(incoming, count)
  \/ auth_mint_loop
  \/ \E response \in Responses(frame.sequence) : call_returns(response)
  \/ call_fails
  \/ \E incoming \in QueryIncomings : get_orbital_count(incoming)
  \/ \E incoming \in QueryIncomings : get_name(incoming)
  \/ \E incoming \in QueryIncomings : get_symbol(incoming)
  \/ \E incoming \in QueryIncomings : get_total_supply(incoming)
  \/ \E incoming \in QueryIncomings, index \in QueryIndexes : get_attributes(incoming, index)
  \/ \E incoming \in QueryIncomings, index \in QueryIndexes : get_data(incoming, index)
  \/ \E incoming \in QueryIncomings, index \in QueryIndexes, overflow_checks \in BOOLEAN :
        get_instance_alkane_id(incoming, index, overflow_checks)
  \/ \E incoming \in QueryIncomings, index \in QueryIndexes, overflow_checks \in BOOLEAN :
        get_instance_identifier(incoming, index, overflow_checks)
  \/ respond
  \/ host_advance

Spec == Init /\ [][Next]_vars

(* ---------------- the registry round trip on its own ---------------- *)
\* u128 field values that exercise one to four significant bytes
RoundTripValues == {0, 1, 255, 256, 65535, 65536, 16777216, U128_MAX}

\* a registry holding count records, as count mints leave it
RegistryOf(count) == [k \in 1..count |-> encode_id([block |-> 2, tx |-> MYSELF.tx + k])]

InitRoundTrip ==
  /\ pc = "rt_input"
  /\ \E block \in RoundTripValues, tx \in RoundTripValues :
        call = [op |-> "roundTrip", incoming |-> <<>>, arg |-> [block |-> block, tx |-> tx]]
  /\ \E count \in 0..(max_mints - 1) :
        /\ instances = count
        /\ records = RegistryOf(count)
  /\ initialized = FALSE
  /\ seq = MYSELF.tx + 1
  /\ saved = NoCheckpoint
  /\ frame = EmptyFrame
  /\ result = OkResult(<<>>, <<>>)
  /\ mintLog = <<>>
  /\ subcalls = <<>>
  /\ hist = [okMintCalls |-> 0, okAuthMints |-> 0, returnedOrbitals |-> 0, initOk |-> 0]

rt_add_instance ==
  /\ pc = "rt_input"
  /\ LET added == add_instance(instances_count, records, call.arg)
     IN /\ instances' = added.count
        /\ records' = added.records
        /\ result' = IF added.err = "" THEN OkResult(<<>>, <<added.count>>)
                     ELSE ErrResult(added.err)
  /\ pc' = "rt_added"
  /\ UNCHANGED <<call, initialized, seq, saved, frame, mintLog, subcalls, hist>>

rt_lookup_instance ==
  /\ pc = "rt_added"
  /\ result.status = "ok"
  /\ LET new_count == result.data[1]
         found == lookup_instance(records, new_count - 1)
     IN result' = IF found.err = "" THEN OkResult(<<>>, <<found.id>>)
                  ELSE ErrResult(found.err)
  /\ pc' = "rt_looked"
  /\ UNCHANGED <<call, instances, records, initialized, seq, saved, frame, mintLog,
                 subcalls, hist>>

NextRoundTrip == rt_add_instance \/ rt_lookup_instance

SpecRoundTrip == InitRoundTrip /\ [][NextRoundTrip]_vars

(* ======================= properties ======================= *)
Committed == pc \in {"idle", "done"}

\* the error kinds of the specification, as the messages the code raises
SupplyExhausted == {ERR_MINTED_OUT}
MintFailed == {ERR_NOT_RETURNED}
CounterOverflow == {ERR_OVERFLOW}
AlreadyInitialized == {ERR_INITIALIZED}
AuthenticationError == {ERR_AUTH_LEN, ERR_AUTH_ID, ERR_AUTH_VALUE}
IndexOutOfBounds == {ERR_INDEX}

\* C1: as long as only mintOrbital has minted, the count equals the number of
\* successful mintOrbital calls (0..5) and getOrbitalCount reports it; a
\* mintOrbital call entered at count 5 fails with SupplyExhausted, count still 5.
C1_MintOrbitalCountsToSupply ==
  /\ (Committed /\ hist.okAuthMints = 0) =>
        /\ instances = hist.okMintCalls
        /\ hist.okMintCalls \in 0..5
  /\ (pc = "done" /\ call.op = "getOrbitalCount" /\ hist.okAuthMints = 0) =>
        /\ result.status = "ok"
        /\ Len(result.data) = 16
        /\ from_le_bytes(result.data) = hist.okMintCalls
  /\ (pc = "done" /\ call.op = "mintOrbital" /\ saved.instances = 5) =>
        /\ result.status = "err"
        /\ result.err \in SupplyExhausted
        /\ instances = 5

C1_Witness ==
  /\ pc = "done" /\ call.op = "mintOrbital" /\ saved.instances = 5
  /\ hist.okMintCalls = 5 /\ hist.okAuthMints = 0
  /\ result.err \in SupplyExhausted

\* C2: in every state, the intermediate states of a call included, the
\* persisted count lies in 0..5.
C2_CountWithinSupply == instances \in 0..5

C2_Witness ==
  /\ pc = "loop" /\ call.op = "authMintOrbital" /\ call.arg = MaxCount
  /\ Len(subcalls) >= 2 /\ instances = 5 /\ frame.remaining > 0

\* C3 (as stated): the identity recorded for a mint carries the host counter
\* value observed after that mint's sub-call returned.
C3_SequenceObservedAfterCall ==
  \A k \in 1..Len(mintLog) : mintLog[k].id = [block |-> 2, tx |-> mintLog[k].hostAfter]

\* C3 (amended): the identity recorded for a mint is {realm 2, sequence} where
\* sequence is the host counter value read before that mint's sub-call, one
\* less than the value after it; getInstanceIdentifier(0) reports "2:" followed
\* by the value read before the first mint's sub-call.
C3_SequenceReadBeforeCall ==
  /\ \A k \in 1..Len(mintLog) :
        /\ mintLog[k].id = [block |-> 2, tx |-> mintLog[k].hostBefore]
        /\ mintLog[k].hostAfter = mintLog[k].hostBefore + 1
  /\ (pc = "done" /\ call.op = "getInstanceIdentifier" /\ call.arg = 0
        /\ result.status = "ok") =>
        /\ Len(mintLog) >= 1
        /\ result.data = <<"2", ":">> \o Decimal(mintLog[1].hostBefore)

C3_Witness ==
  /\ pc = "done" /\ call.op = "getInstanceIdentifier" /\ call.arg = 0
  /\ result.status = "ok" /\ Len(mintLog) >= 2
  /\ mintLog[1].hostBefore > MYSELF.tx + 1

\* C4: public index i (0 <= i < count) looks up exactly the identity the
\* (i+1)-th mint passed to add_instance, whichever operation minted it.
C4_LookupFollowsMintOrder ==
  Committed =>
    /\ Len(mintLog) = instances
    /\ \A i \in 0..(instances - 1) :
          lookup_instance(records, i) = [err |-> "", id |-> mintLog[i + 1].id]

C4_Witness ==
  /\ pc = "idle" /\ instances = 5
  /\ hist.okMintCalls = 2 /\ hist.okAuthMints = 3
  /\ mintLog[2].hostBefore > mintLog[1].hostAfter

\* C5: in every state the sequence values of the stored records are strictly
\* increasing in mint order, so no two records share an identity.
C5_SequencesStrictlyIncreasing ==
  /\ \A i \in 0..(instances - 1) : lookup_instance(records, i).err = ""
  /\ \A i \in 0..(instances - 2) :
        lookup_instance(records, i).id.tx < lookup_instance(records, i + 1).id.tx
  /\ Cardinality({lookup_instance(records, i).id : i \in 0..(instances - 1)}) = instances

C5_Witness ==
  /\ pc = "loop" /\ call.op = "authMintOrbital" /\ Len(subcalls) >= 3
  /\ instances >= 4 /\ saved.instances = 1

\* what the authentication gate asks of the incoming transfers
AdminPresented(incoming) ==
  /\ Len(incoming) = 1
  /\ incoming[1].id = MYSELF
  /\ incoming[1].value >= 1

\* C6: an authMintOrbital call that does not carry exactly one transfer of the
\* contract's own token with amount >= 1 ends with AuthenticationError before
\* any mint: no sub-call is issued, count and records stay as they were.
C6_AuthGateBeforeAnyMint ==
  (pc # "idle" /\ call.op = "authMintOrbital" /\ ~AdminPresented(call.incoming)) =>
    /\ pc = "done"
    /\ result.status = "err"
    /\ result.err \in AuthenticationError
    /\ subcalls = <<>>
    /\ instances = saved.instances
    /\ records = saved.records

C6_Witness ==
  /\ pc = "done" /\ call.op = "authMintOrbital" /\ call.arg >= 1
  /\ call.incoming = <<[id |-> MYSELF, value |-> 0]>>
  /\ result.err = ERR_AUTH_VALUE /\ instances >= 1

\* C7: a failed call leaves the persisted count and records as they were when
\* it was entered; a sub-call that returns no transfer fails the call with
\* MintFailed; the committed count always equals the number of minted
\* transfers handed out by successful calls.
C7_FailedCallLeavesNoEffect ==
  /\ (pc = "done" /\ result.status = "err") =>
        /\ instances = saved.instances
        /\ records = saved.records
        /\ result.err \in SupplyExhausted \cup MintFailed \cup AuthenticationError
                          \cup CounterOverflow \cup AlreadyInitialized
                          \cup IndexOutOfBounds \cup {ERR_EXTCALL, ERR_LENGTH, ERR_PANIC}
  /\ (pc = "done" /\ subcalls # <<>> /\ subcalls[Len(subcalls)].ok
        /\ subcalls[Len(subcalls)].alkanes = <<>>) =>
        /\ result.status = "err"
        /\ result.err \in MintFailed
  /\ Committed => instances = hist.returnedOrbitals

C7_Witness ==
  /\ pc = "done" /\ call.op = "mintOrbital" /\ result.err \in MintFailed
  /\ Len(subcalls) = 1 /\ subcalls[1].ok /\ subcalls[1].alkanes = <<>>
  /\ saved.instances = 2 /\ instances = 2

\* C8: a finished authMintOrbital(count) has either kept all count mints or
\* none of them, whatever made it fail partway.
C8_BulkMintAllOrNothing ==
  (pc = "done" /\ call.op = "authMintOrbital") =>
    \/ /\ result.status = "ok"
       /\ instances = saved.instances + call.arg
       /\ DOMAIN records = 1..(saved.instances + call.arg)
    \/ /\ result.status = "err"
       /\ instances = saved.instances
       /\ records = saved.records

C8_Witness ==
  /\ pc = "done" /\ call.op = "authMintOrbital" /\ result.err \in SupplyExhausted
  /\ Len(subcalls) = 2 /\ call.arg = 3 /\ saved.instances = 3 /\ instances = 3

\* C9: a successful authMintOrbital(count) issues exactly count sub-calls,
\* raises the count by exactly count and answers with the incoming transfers
\* followed by the first output transfer of each sub-call, in order.
C9_AuthMintsExactlyCount ==
  (pc = "done" /\ call.op = "authMintOrbital" /\ result.status = "ok") =>
    /\ instances = saved.instances + call.arg
    /\ Len(subcalls) = call.arg
    /\ Len(mintLog) = Len(saved.mintLog) + call.arg
    /\ result.alkanes = call.incoming \o [k \in 1..call.arg |-> subcalls[k].alkanes[1]]
    /\ AdminPresented(call.incoming)
    /\ (call.arg = 0 => (result.alkanes = call.incoming /\ records = saved.records))

C9_Witness ==
  /\ pc = "done" /\ call.op = "authMintOrbital" /\ result.status = "ok"
  /\ call.arg = 3 /\ saved.instances = 1
  /\ Len(subcalls[2].alkanes) = 2

\* C10: initialize succeeds exactly when no earlier initialize has succeeded;
\* every later one fails with AlreadyInitialized, whatever happened in between.
C10_InitializeSucceedsOnce ==
  /\ hist.initOk <= 1
  /\ initialized = (hist.initOk = 1)
  /\ (pc = "done" /\ call.op = "initialize") =>
        IF saved.initialized
        THEN result.status = "err" /\ result.err \in AlreadyInitialized
        ELSE result.status = "ok" /\ hist.initOk = 1

C10_Witness ==
  /\ pc = "done" /\ call.op = "initialize" /\ result.err \in AlreadyInitialized
  /\ hist.initOk = 1 /\ instances >= 2 /\ hist.okAuthMints >= 1

\* C11 (as stated): the output transfers of a successful initialize are exactly
\* one transfer, the contract's own identity with amount 10, whatever the
\* caller presented.
C11_InitializeEmitsOnlySelfTransfer ==
  (pc = "done" /\ call.op = "initialize" /\ result.status = "ok") =>
    result.alkanes = <<[id |-> MYSELF, value |-> 10]>>

\* C11 (amended): the output transfers of a successful initialize are the
\* incoming transfers, in order, followed by exactly one added transfer of the
\* contract's own identity with amount 10; the count and the records are
\* untouched and no sub-call is made.
C11_InitializeForwardsThenSelfTransfer ==
  (pc = "done" /\ call.op = "initialize" /\ result.status = "ok") =>
    /\ result.alkanes = call.incoming \o <<[id |-> MYSELF, value |-> 10]>>
    /\ Len(result.alkanes) = Len(call.incoming) + 1
    /\ instances = saved.instances
    /\ records = saved.records
    /\ subcalls = <<>>
    /\ seq = saved.seq

C11_Witness ==
  /\ pc = "done" /\ call.op = "initialize" /\ result.status = "ok"
  /\ Len(call.incoming) = 2 /\ instances >= 1

\* C12: a mintOrbital call entered below the supply always reaches the
\* template, whatever the incoming transfers and the initialization marker; if
\* the sub-call returns at least one transfer the call succeeds, answers with
\* the incoming transfers in order followed by the sub-call's first output
\* transfer, and raises the count by exactly 1.
C12_MintOrbitalUnrestricted ==
  (pc = "done" /\ call.op = "mintOrbital" /\ saved.instances < 5) =>
    /\ Len(subcalls) = 1
    /\ (subcalls[1].ok /\ subcalls[1].alkanes # <<>>) =>
          /\ result.status = "ok"
          /\ result.alkanes = call.incoming \o <<subcalls[1].alkanes[1]>>
          /\ instances = saved.instances + 1
          /\ initialized = saved.initialized

C12_Witness ==
  /\ pc = "done" /\ call.op = "mintOrbital" /\ result.status = "ok"
  /\ ~saved.initialized /\ saved.instances = 4
  /\ call.incoming = <<[id |-> MYSELF, value |-> 0], [id |-> OTHER_ALKANE, value |-> 1]>>
  /\ Len(subcalls[1].alkanes) = 2

\* the storage as committed: inside a call it is the host's checkpoint
CommittedCount == IF Committed THEN instances ELSE saved.instances
CommittedRecords == IF Committed THEN records ELSE saved.records

\* C13: no step lowers the committed count, and every public index below the
\* committed count keeps looking up the same identity after the step: records
\* are written once, at mint time, and never changed or removed.
C13_RegistryAppendOnly ==
  [][ /\ CommittedCount' >= CommittedCount
      /\ \A i \in 0..(CommittedCount - 1) :
            /\ lookup_instance(CommittedRecords, i).err = ""
            /\ lookup_instance(CommittedRecords', i) = lookup_instance(CommittedRecords, i) ]_vars

C13_Witness ==
  /\ pc = "done" /\ call.op = "authMintOrbital" /\ result.status = "ok"
  /\ saved.instances = 2 /\ instances = 5

\* byte i (0-based) of the little-endian form of a value below 2^32
LeByte(x, i) ==
  IF i = 0 THEN x % 256
  ELSE IF i = 1 THEN (x \div 256) % 256
  ELSE IF i = 2 THEN (x \div 65536) % 256
  ELSE IF i = 3 THEN (x \div 16777216) % 256
  ELSE 0

\* C14: add_instance(id) stores exactly 32 bytes under its new count, the realm
\* little-endian in bytes 0..16 and the sequence little-endian in bytes 16..32,
\* and lookup_instance(new count - 1) gives back an identity equal to id in
\* both fields.
C14_RegistryRoundTrip ==
  /\ pc \in {"rt_added", "rt_looked"} =>
        /\ instances \in DOMAIN records
        /\ Len(records[instances]) = 32
        /\ \A i \in 0..15 :
              /\ records[instances][i + 1] = LeByte(call.arg.block, i)
              /\ records[instances][i + 17] = LeByte(call.arg.tx, i)
  /\ pc = "rt_looked" =>
        /\ result.status = "ok"
        /\ result.data = <<call.arg>>

C14_Witness ==
  /\ pc = "rt_looked" /\ instances = 5
  /\ call.arg = [block |-> 65536, tx |-> U128_MAX]
  /\ result.status = "ok"

\* C15: getAttributes(index) and getData(index) fail with IndexOutOfBounds for
\* every index >= 5 and succeed for every index in 0..4 whatever has been
\* minted; the payload is the table entry of the index, whatever the state.
C15_StaticTablesBoundedByFive ==
  /\ (pc = "done" /\ call.op = "getAttributes") =>
        IF call.arg >= 5
        THEN result.status = "err" /\ result.err \in IndexOutOfBounds
        ELSE /\ result.status = "ok"
             /\ result.data = generate_dogi_attributes(call.arg).out
             /\ Len(result.data) = 1
  /\ (pc = "done" /\ call.op = "getData") =>
        IF call.arg >= 5
        THEN result.status = "err" /\ result.err \in IndexOutOfBounds
        ELSE /\ result.status = "ok"
             /\ result.data = <<cloudinary_urls[call.arg + 1]>>

C15_Witness ==
  /\ pc = "done" /\ call.op = "getData" /\ call.arg = 4
  /\ result.status = "ok" /\ instances = 0

\* C16: every sub-call is addressed to {6, 0x378} with inputs <<0, count read
\* at the start of the mint>>; the mints kept in the registry were sent the
\* ordinals 0, 1, 2, ... in order, and the identity recorded for ordinal k is
\* the one public index k looks up.
C16_OrdinalMatchesPublicIndex ==
  /\ pc = "calling" =>
        frame.cellpack = [target |-> [block |-> 6, tx |-> 888], inputs |-> <<0, instances>>]
  /\ \A k \in 1..Len(mintLog) :
        /\ mintLog[k].cellpack = [target |-> [block |-> 6, tx |-> 888], inputs |-> <<0, k - 1>>]
        /\ mintLog[k].cellpack.inputs[2] \in 0..4
        /\ lookup_instance(records, mintLog[k].cellpack.inputs[2]) =
             [err |-> "", id |-> mintLog[k].id]
  /\ \A k \in 1..Len(subcalls) :
        subcalls[k].cellpack.inputs = <<0, saved.instances + k - 1>>

C16_Witness ==
  /\ pc = "done" /\ call.op = "authMintOrbital" /\ result.status = "ok"
  /\ Len(mintLog) = 5 /\ saved.instances = 3 /\ hist.okMintCalls >= 1

\* C17: in every committed state the registry keys holding a record are
\* exactly 1..count, each record 32 bytes long; lookup_instance gives an
\* identity exactly for the indexes below the count, and the two identity
\* queries succeed exactly for those, the largest u128 index included.
C17_RegistryDense ==
  /\ Committed =>
        /\ DOMAIN records = 1..instances
        /\ \A k \in DOMAIN records : Len(records[k]) = 32
        /\ StorageGet(records, 0) = <<>>
        /\ \A i \in QueryIndexes : (lookup_instance(records, i).err = "") <=> (i < instances)
  /\ (pc = "done" /\ call.op \in {"getInstanceAlkaneId", "getInstanceIdentifier"}) =>
        /\ (result.status = "ok") <=> (call.arg < instances)
        /\ result.status = "err" => result.err \in {ERR_LENGTH, ERR_PANIC}

C17_Witness ==
  /\ pc = "done" /\ call.op = "getInstanceAlkaneId" /\ call.arg = U128_MAX
  /\ result.status = "err" /\ result.err = ERR_LENGTH /\ instances = 5

\* C18: the template is never called at full supply: the contract is inside a
\* sub-call only with a count below 5, every sub-call of a call carries an
\* ordinal below 5, and a mintOrbital entered at count 5 ends with
\* SupplyExhausted, no sub-call made, host counter as it was; a call that ends
\* with SupplyExhausted has made only the sub-calls the supply still allowed.
C18_NoCallAtFullSupply ==
  /\ pc = "calling" => (instances < 5 /\ frame.index < 5)
  /\ \A k \in 1..Len(subcalls) : subcalls[k].cellpack.inputs[2] < 5
  /\ (pc = "done" /\ call.op = "mintOrbital" /\ saved.instances >= 5) =>
        /\ result.err \in SupplyExhausted
        /\ subcalls = <<>>
        /\ seq = saved.seq
  /\ (pc = "done" /\ result.err \in SupplyExhausted) =>
        /\ Len(subcalls) = 5 - saved.instances
        /\ seq = saved.seq

C18_Witness ==
  /\ pc = "done" /\ call.op = "authMintOrbital" /\ result.err \in SupplyExhausted
  /\ saved.instances = 5 /\ subcalls = <<>> /\ call.arg >= 1

QueryOps ==
  {"getName", "getSymbol", "getTotalSupply", "getOrbitalCount", "getAttributes", "getData",
   "getInstanceAlkaneId", "getInstanceIdentifier"}

\* C19: a query, failed or not, leaves the count, the records and the
\* initialization marker as they were, makes no sub-call and leaves the host
\* counter where it was.
C19_QueriesReadOnly ==
  (pc # "idle" /\ call.op \in QueryOps) =>
    /\ pc = "done"
    /\ instances = saved.instances
    /\ records = saved.records
    /\ initialized = saved.initialized
    /\ seq = saved.seq
    /\ subcalls = <<>>
    /\ mintLog = saved.mintLog

C19_Witness ==
  /\ pc = "done" /\ call.op = "getInstanceIdentifier" /\ result.status = "err"
  /\ call.arg = 3 /\ instances = 3 /\ ~initialized

====
